---- MODULE Spec2Model ----
(***************************************************************************)
(* A model of himawari-desktop-updater: the command line values, the       *)
(* download_latest_himawari_image pipeline (output directory, metadata,    *)
(* output path, overwrite check, parallel tile download, composition,      *)
(* save) and main's wallpaper step and exit code.                          *)
(*                                                                         *)
(* Text (the margins argument, the metadata date, file names) is modelled  *)
(* as sequences of one-character strings.  A canvas is modelled by its     *)
(* dimensions and the ordered list of rectangles copied into it; PixelAt   *)
(* reads one pixel back.                                                   *)
(***************************************************************************)
EXTENDS Integers, Sequences, FiniteSets, TLC

VARIABLES
    store_latest_only,   \* main: --store-latest-only
    force,               \* main: --force
    try_set_wallpaper,   \* main: --set-wallpaper
    output_format,       \* main: --output-format, "PNG" or "JPEG"
    output_level,        \* main: --output-level
    margins_arg,         \* main: the text of --margins
    margins,             \* main: the parsed margins
    files,               \* the output directory: a set of [path, content]
    old_files,           \* the output directory as it was before the run
    dir_exists,          \* whether the output directory exists
    bad_allowed,         \* how many tiles the network and the service spoil
    pc,                  \* the position of the program
    latest_date,         \* the parsed date of latest.json
    output_file_path,    \* the file name that will be written
    chunk_positions,     \* the (x, y) positions, in the order of the code
    next_task,           \* per pool worker, the next position it downloads
    results,             \* per position, the outcome of its download
    attempts,            \* per position, the number of requests issued
    warned,              \* the kinds of download error logged by warn!
    local,               \* per pool worker, the positions it collected
    finished,            \* the pool workers in the order they finished
    chunks,              \* the collected chunks
    canvas,              \* the canvas
    result,              \* the Result of download_latest_himawari_image
    metadata_requests,   \* the number of requests for latest.json
    wallpaper,           \* the call of set_wallpaper
    exit_code,           \* the exit code of the process
    phases               \* the phases of the pipeline passed so far

vars == <<store_latest_only, force, try_set_wallpaper, output_format,
          output_level, margins_arg, margins, files, old_files, dir_exists,
          bad_allowed, pc, latest_date, output_file_path, chunk_positions,
          next_task, results, attempts, warned, local, finished, chunks,
          canvas, result, metadata_requests, wallpaper, exit_code, phases>>

----------------------------------------------------------------------------
(* Bounds of the model *)

\* the margins argument has at most this many comma separated fields
MaxFields == 5

\* in the runs that look at the tiles, at most this many tiles are anything
\* but a well-formed tile
MaxBad == 2

\* the pipeline is run for the levels up to this one
MaxRunLevel == 4

\* an oversized tile is this many pixels wider and higher than a tile
OversizeBy == 50

----------------------------------------------------------------------------
(* Program constants *)

\* let width = 550;
width == 550

\* n == 4 || n == 8 || n == 16 || n == 20
Levels == {4, 8, 16, 20}

(* Numbers of the width of a u32 and beyond are written in three limbs,  *)
(* top * 2^32 + hi * 2^16 + lo: a u32 is a number whose top limb is 0.   *)
Limb == 2 ^ 16

\* the number n, for an n below 2^31
N(n) == [top |-> 0, hi |-> n \div Limb, lo |-> n % Limb]

\* a + b, as natural numbers
AddN(a, b) ==
    LET lo == a.lo + b.lo
        hi == a.hi + b.hi + (lo \div Limb)
    IN  [top |-> a.top + b.top + (hi \div Limb), hi |-> hi % Limb,
         lo |-> lo % Limb]

\* 10 * a + d, as natural numbers
ShiftIn(a, d) ==
    LET lo == (10 * a.lo) + d
        hi == (10 * a.hi) + (lo \div Limb)
    IN  [top |-> (10 * a.top) + (hi \div Limb), hi |-> hi % Limb,
         lo |-> lo % Limb]

\* a < b, for two u32
LessU32(a, b) == a.hi < b.hi \/ (a.hi = b.hi /\ a.lo < b.lo)

\* whether the natural number fits a u32
FitsU32(a) == a.top = 0

\* what an overflowing u32 operation leaves in a build without overflow
\* checks: the number modulo 2^32
WrapU32(a) == [a EXCEPT !.top = 0]

\* a u32 below 2^31 as an integer
ToInt(a) == (a.hi * Limb) + a.lo

----------------------------------------------------------------------------
(* Text *)

DigitChars == <<"0", "1", "2", "3", "4", "5", "6", "7", "8", "9">>

IsDigit(c) == \E i \in 1..10 : DigitChars[i] = c

DigitVal(c) == (CHOOSE i \in 1..10 : DigitChars[i] = c) - 1

RECURSIVE DigitsVal(_)
\* the number a short sequence of digits denotes
DigitsVal(s) ==
    IF s = <<>> THEN 0
    ELSE 10 * DigitsVal(SubSeq(s, 1, Len(s) - 1)) + DigitVal(s[Len(s)])

RECURSIVE DigitsNum(_)
\* the natural number a sequence of digits denotes
DigitsNum(s) ==
    IF s = <<>> THEN N(0)
    ELSE ShiftIn(DigitsNum(SubSeq(s, 1, Len(s) - 1)), DigitVal(s[Len(s)]))

\* n in decimal, zero padded to k digits
Pad(n, k) == [i \in 1..k |-> DigitChars[((n \div (10 ^ (k - i))) % 10) + 1]]

RECURSIVE Split(_, _)
\* str::split: the fields of s between the separators c, at least one
Split(s, c) ==
    IF \A i \in 1..Len(s) : s[i] # c THEN <<s>>
    ELSE LET i == CHOOSE j \in 1..Len(s) :
                      s[j] = c /\ \A k \in 1..(j - 1) : s[k] # c
         IN  <<SubSeq(s, 1, i - 1)>> \o Split(SubSeq(s, i + 1, Len(s)), c)

RECURSIVE Trim(_)
\* str::trim: s without its leading and trailing white space
Trim(s) ==
    IF s = <<>> THEN s
    ELSE IF s[1] = " " THEN Trim(Tail(s))
    ELSE IF s[Len(s)] = " " THEN Trim(SubSeq(s, 1, Len(s) - 1))
    ELSE s

\* str::parse::<u32>: an optional plus sign and at least one digit, the value
\* within the u32 range
ParseU32(s) ==
    LET d == IF s # <<>> /\ s[1] = "+" THEN Tail(s) ELSE s
    IN  IF d # <<>> /\ (\A i \in 1..Len(d) : IsDigit(d[i]))
           /\ FitsU32(DigitsNum(d))
        THEN [ok |-> TRUE, val |-> DigitsNum(d)]
        ELSE [ok |-> FALSE, val |-> N(0)]

----------------------------------------------------------------------------
(* Margins *)

NoMargins ==
    [ok |-> FALSE, top |-> N(0), right |-> N(0), bottom |-> N(0),
     left |-> N(0)]

\* Margins::default
EmptyMargins ==
    [ok |-> TRUE, top |-> N(0), right |-> N(0), bottom |-> N(0),
     left |-> N(0)]

\* parts.next().unwrap_or(Ok(default)): the i-th field parsed, or the default
\* when there is no i-th field
NextPart(parts, i, default) ==
    IF i <= Len(parts) THEN ParseU32(Trim(parts[i]))
    ELSE [ok |-> TRUE, val |-> default]

\* a slip: the left margin defaults to the top margin
TryParseLeftFromTop(input) ==
    LET parts  == Split(input, ",")
        top    == NextPart(parts, 1, N(0))
        right  == NextPart(parts, 2, top.val)
        bottom == NextPart(parts, 3, top.val)
        left   == NextPart(parts, 4, top.val)
    IN  IF ~top.ok \/ ~right.ok \/ ~bottom.ok \/ ~left.ok THEN NoMargins
        ELSE IF Len(parts) > 4 THEN NoMargins
        ELSE [ok |-> TRUE, top |-> top.val, right |-> right.val,
              bottom |-> bottom.val, left |-> left.val]

\* Margins::try_parse
try_parse(input) ==
    LET parts  == Split(input, ",")
        top    == NextPart(parts, 1, N(0))
        right  == NextPart(parts, 2, top.val)
        bottom == NextPart(parts, 3, top.val)
        left   == NextPart(parts, 4, right.val)
    IN  IF ~top.ok THEN NoMargins
        ELSE IF ~right.ok THEN NoMargins
        ELSE IF ~bottom.ok THEN NoMargins
        ELSE IF ~left.ok THEN NoMargins
        ELSE IF Len(parts) > 4 THEN NoMargins
        ELSE [ok |-> TRUE, top |-> top.val, right |-> right.val,
              bottom |-> bottom.val, left |-> left.val]

----------------------------------------------------------------------------
(* The canvas *)

NoCanvas == [w |-> N(0), h |-> N(0), writes |-> <<>>]

\* let w = margins.left + (width * level) + margins.right; and h: the sums
\* as natural numbers
CanvasSums(m, level) ==
    [w |-> AddN(AddN(m.left, N(width * level)), m.right),
     h |-> AddN(AddN(m.top, N(width * level)), m.bottom)]

\* ImageBuffer::new(w, h) after the two sums: a u32 sum that overflows panics
\* in a build with overflow checks and wraps in a build without them
NewCanvas(m, level) ==
    LET s == CanvasSums(m, level)
        over == ~FitsU32(s.w) \/ ~FitsU32(s.h)
    IN  {[panic |-> FALSE, w |-> WrapU32(s.w), h |-> WrapU32(s.h),
          writes |-> <<>>]}
        \cup (IF over
              THEN {[panic |-> TRUE, w |-> N(0), h |-> N(0), writes |-> <<>>]}
              ELSE {})

\* ImageBuffer::new fills the buffer with zeroes
Background == <<"background">>

\* GenericImage::copy_from as line 318 uses it, the returned value dropped:
\* the block is copied with its top left corner at (x, y) when it fits, and
\* nothing is copied when it does not
copy_from(cv, block, x, y) ==
    IF \/ LessU32(cv.w, WrapU32(AddN(N(block.w), x)))
       \/ LessU32(cv.h, WrapU32(AddN(N(block.h), y)))
    THEN cv
    ELSE [cv EXCEPT !.writes =
              Append(@, [tile |-> block.tile, x |-> x, y |-> y,
                         w |-> block.w, h |-> block.h])]

Covers(wr, px, py) ==
    /\ ToInt(wr.x) <= px /\ px < ToInt(wr.x) + wr.w
    /\ ToInt(wr.y) <= py /\ py < ToInt(wr.y) + wr.h

\* the pixel of the canvas at (px, py): the background, or the pixel of the
\* block copied there last, named by its tile and its place in the block
PixelAt(cv, px, py) ==
    LET hits == {i \in 1..Len(cv.writes) : Covers(cv.writes[i], px, py)}
    IN  IF hits = {} THEN Background
        ELSE LET i == CHOOSE j \in hits : \A k \in hits : k <= j
                 wr == cv.writes[i]
             IN  <<wr.tile, px - ToInt(wr.x), py - ToInt(wr.y)>>

----------------------------------------------------------------------------
(* The metadata date and the output file name *)

NoDate == [ok |-> FALSE, year |-> 0, month |-> 0, day |-> 0,
           hour |-> 0, minute |-> 0, second |-> 0]

DaysIn(year, month) ==
    IF month \in {4, 6, 9, 11} THEN 30
    ELSE IF month # 2 THEN 31
    ELSE IF (year % 4 = 0 /\ year % 100 # 0) \/ year % 400 = 0 THEN 29
    ELSE 28

\* Utc.datetime_from_str(&latest_info.date, "%Y-%m-%d %H:%M:%S")
datetime_from_str(s) ==
    LET digits == {1, 2, 3, 4, 6, 7, 9, 10, 12, 13, 15, 16, 18, 19}
        shape  == /\ Len(s) = 19
                  /\ \A i \in digits : IsDigit(s[i])
                  /\ s[5] = "-" /\ s[8] = "-" /\ s[11] = " "
                  /\ s[14] = ":" /\ s[17] = ":"
        year   == DigitsVal(SubSeq(s, 1, 4))
        month  == DigitsVal(SubSeq(s, 6, 7))
        day    == DigitsVal(SubSeq(s, 9, 10))
        hour   == DigitsVal(SubSeq(s, 12, 13))
        minute == DigitsVal(SubSeq(s, 15, 16))
        second == DigitsVal(SubSeq(s, 18, 19))
    IN  IF shape /\ month \in 1..12 /\ day \in 1..DaysIn(year, month)
           /\ hour \in 0..23 /\ minute \in 0..59 /\ second \in 0..59
        THEN [ok |-> TRUE, year |-> year, month |-> month, day |-> day,
              hour |-> hour, minute |-> minute, second |-> second]
        ELSE NoDate

\* impl Display for OutputFormat
FormatExt(fmt) ==
    IF fmt = "PNG" THEN <<"p", "n", "g">> ELSE <<"j", "p", "e", "g">>

NamePrefix == <<"h", "i", "m", "a", "w", "a", "r", "i", "8", "_">>

LatestWord == <<"l", "a", "t", "e", "s", "t">>

\* the file name pushed on output_dir: "himawari8_latest.{}" or
\* "himawari8_{}{}{}_{}.{}" of year, month, day, time and format
OutputFileName(latest_only, date, fmt) ==
    IF latest_only
    THEN NamePrefix \o LatestWord \o <<".">> \o FormatExt(fmt)
    ELSE NamePrefix \o Pad(date.year, 4) \o Pad(date.month, 2)
            \o Pad(date.day, 2) \o <<"_">>
            \o Pad(date.hour, 2) \o Pad(date.minute, 2) \o Pad(date.second, 2)
            \o <<".">> \o FormatExt(fmt)

FileExists(fs, path) == \E f \in fs : f.path = path

FileContent(fs, path) == (CHOOSE f \in fs : f.path = path).content

\* canvas.save(path) that succeeds: the file holds the canvas
WriteFile(fs, path, content) ==
    {f \in fs : f.path # path} \cup {[path |-> path, content |-> content]}

\* a slip: --force takes the place of --store-latest-only in the condition
ShouldSkipForceOnly(exists, latest_only, forced) ==
    exists /\ ~forced

\* a slip: the negation of force is lost
ShouldSkipWhenForced(exists, latest_only, forced) ==
    exists /\ ~latest_only /\ forced

\* a slip: the negation of store_latest_only is lost
ShouldSkipLatestOnly(exists, latest_only, forced) ==
    exists /\ latest_only /\ ~forced

\* output_file_path.exists() && !store_latest_only && !force
ShouldSkip(exists, latest_only, forced) ==
    exists /\ ~latest_only /\ ~forced

----------------------------------------------------------------------------
(* The tiles *)

\* a slip: the positions start at 1
ChunkPositionsFromOne(level) ==
    [i \in 1..(level * level) |->
        <<((i - 1) % level) + 1, ((i - 1) \div level) + 1>>]

\* (0..level).flat_map(|y| (0..level).map(move |x| (x, y))).collect()
ChunkPositions(level) ==
    [i \in 1..(level * level) |-> <<(i - 1) % level, (i - 1) \div level>>]

\* what download_bytes gives for one tile: an error of send or read (a
\* timeout is one), an error of error_for_status, or the bytes of the
\* response: a PNG of a tile, a PNG of an oversized image, or no PNG at all
FetchErrors == {"send_err", "status_err"}
FetchBytes == {"png_tile", "png_big", "not_png"}
FetchOutcomes == FetchErrors \cup FetchBytes

\* what the closure of filter_map keeps of an outcome: the bytes, or None
Kept(o) == IF o \in FetchBytes THEN o ELSE "none"

Bad(rs) == {i \in DOMAIN rs : rs[i] \notin {"pending", "png_tile"}}

\* load_from_memory_with_format(&image_data, ImageFormat::PNG)
Decode(image_data, tile) ==
    IF image_data = "png_tile"
    THEN [ok |-> TRUE, tile |-> tile, w |-> width, h |-> width]
    ELSE IF image_data = "png_big"
    THEN [ok |-> TRUE, tile |-> tile,
          w |-> width + OversizeBy, h |-> width + OversizeBy]
    ELSE [ok |-> FALSE, tile |-> tile, w |-> 0, h |-> 0]

\* let x = margins.left + (x * width); let y = margins.top + (y * width);
Offset(m, pos) ==
    [x |-> WrapU32(AddN(m.left, N(pos[1] * width))),
     y |-> WrapU32(AddN(m.top, N(pos[2] * width)))]

RECURSIVE PlaceChunks(_, _, _, _)
\* for (x, y, image_data) in chunks { ... }: the canvas after the chunks from
\* the i-th on, or the error of the first chunk that does not decode
PlaceChunks(cv, m, chs, i) ==
    IF i > Len(chs) THEN [ok |-> TRUE, canvas |-> cv]
    ELSE LET block == Decode(chs[i].image_data, chs[i].pos)
             at    == Offset(m, chs[i].pos)
         IN  IF ~block.ok THEN [ok |-> FALSE, canvas |-> NoCanvas]
             ELSE PlaceChunks(copy_from(cv, block, at.x, at.y), m, chs, i + 1)

\* the pool runs the positions as two halves, split in the middle, each half
\* in order: the half of worker k
RangeFirst(k, n) == IF k = 1 THEN 1 ELSE (n \div 2) + 1
RangeLast(k, n) == IF k = 1 THEN n \div 2 ELSE n
Workers == {1, 2}

\* a slip: the chunks are gathered as the workers finish
CollectByArrival(loc, fin) == loc[fin[1]] \o loc[fin[2]]

\* collect(): the chunks of the halves, in the order of the positions
\* whatever the order the workers finished in
Collect(loc, fin) == loc[1] \o loc[2]

----------------------------------------------------------------------------
(* The values a run starts from *)

\* the date of latest.json the service answers with: a date, and a text
\* that is no date (there is no month 13)
GoodDate == <<"2", "0", "2", "4", "-", "0", "3", "-", "0", "1", " ", "0", "4", ":", "2", "0", ":", "0", "0">>
BadDate == <<"2", "0", "2", "4", "-", "1", "3", "-", "0", "1", " ", "0", "4", ":", "2", "0", ":", "0", "0">>
DateStrings == {GoodDate, BadDate}

NoArg == [present |-> FALSE, text |-> <<>>]
Arg(text) == [present |-> TRUE, text |-> text]

\* the --margins values of the runs of the pipeline
TileMargins == <<"5", ",", "1", "0", ",", "1", "5", ",", "2", "0">>
RunMarginArgs == {NoArg, Arg(TileMargins)}

\* args.value_of("margins").and_then(|s| Margins::parse(s).ok())
\*     .unwrap_or_else(|| Margins::empty())
MainMargins(arg) ==
    IF arg.present /\ try_parse(arg.text).ok THEN try_parse(arg.text)
    ELSE EmptyMargins

\* an image that is in the output directory before the run
OldImage == [w |-> N(1), h |-> N(1), writes |-> <<>>]

\* what a save that fails half way leaves behind
PartialImage == [w |-> N(0), h |-> N(0), writes |-> <<>>]

\* the output directory before the run: empty, or holding one image under
\* one of the two names the run can write
OldFiles(fmt) ==
    {{}}
    \cup {{[path |-> OutputFileName(latest, datetime_from_str(GoodDate), fmt),
            content |-> OldImage]} : latest \in BOOLEAN}

RunLevels == {l \in Levels : l <= MaxRunLevel}

\* what no run has touched yet
Untouched ==
    /\ old_files = files
    /\ warned = {}
    /\ latest_date = NoDate
    /\ output_file_path = <<>>
    /\ chunk_positions = <<>>
    /\ next_task = [k \in Workers |-> 0]
    /\ results = <<>>
    /\ attempts = <<>>
    /\ local = [k \in Workers |-> <<>>]
    /\ finished = <<>>
    /\ chunks = <<>>
    /\ canvas = NoCanvas
    /\ result = "none"
    /\ metadata_requests = 0
    /\ wallpaper = "not_called"
    /\ exit_code = -1
    /\ phases = <<>>

\* the runs of every combination of the flags, with and without an image
\* in the output directory, every tile served well-formed
Init ==
    /\ store_latest_only \in BOOLEAN
    /\ force \in BOOLEAN
    /\ try_set_wallpaper \in BOOLEAN
    /\ output_format \in {"PNG", "JPEG"}
    /\ output_level \in RunLevels
    /\ margins_arg \in RunMarginArgs
    /\ margins = MainMargins(margins_arg)
    /\ files \in OldFiles(output_format)
    /\ dir_exists \in BOOLEAN
    /\ (files # {} => dir_exists)
    /\ bad_allowed = 0
    /\ pc = "prepare"
    /\ Untouched

\* the runs that look at the tiles: the default flags, an empty output
\* directory, margins, and up to MaxBad tiles that fail or are malformed
InitTiles ==
    /\ store_latest_only = FALSE
    /\ force = FALSE
    /\ try_set_wallpaper = FALSE
    /\ output_format = "JPEG"
    /\ output_level \in RunLevels
    /\ margins_arg = Arg(TileMargins)
    /\ margins = MainMargins(margins_arg)
    /\ files = {}
    /\ dir_exists \in BOOLEAN
    /\ bad_allowed = MaxBad
    /\ pc = "prepare"
    /\ Untouched

args == <<store_latest_only, force, try_set_wallpaper, output_format,
          output_level, margins_arg, margins, bad_allowed, old_files>>

fetch_vars == <<chunk_positions, next_task, results, attempts, warned, local,
                finished, chunks>>

\* return Err(...) from download_latest_himawari_image
ReturnErr ==
    /\ result' = "Err"
    /\ pc' = "returned"

----------------------------------------------------------------------------
(* download_latest_himawari_image *)

\* if !output_dir.exists() { DirBuilder::new().recursive(true).create(..)?; }
PrepareOutputDir ==
    /\ pc = "prepare"
    /\ \/ /\ dir_exists
          /\ pc' = "metadata"
          /\ UNCHANGED <<dir_exists, result>>
       \/ /\ ~dir_exists
          /\ dir_exists' = TRUE
          /\ pc' = "metadata"
          /\ UNCHANGED result
       \/ /\ ~dir_exists
          /\ ReturnErr
          /\ UNCHANGED dir_exists
    /\ UNCHANGED <<args, files, latest_date, output_file_path, fetch_vars,
                   canvas, metadata_requests, wallpaper, exit_code, phases>>

\* the cache buster, download_json and datetime_from_str, each with its ?
ResolveMetadata ==
    /\ pc = "metadata"
    /\ \/ \* SystemTime::now().duration_since(UNIX_EPOCH)? fails
          /\ ReturnErr
          /\ UNCHANGED <<latest_date, metadata_requests>>
       \/ \* send, error_for_status or json fails
          /\ metadata_requests' = metadata_requests + 1
          /\ ReturnErr
          /\ UNCHANGED latest_date
       \/ \E s \in DateStrings :
            LET d == datetime_from_str(s)
            IN  /\ metadata_requests' = metadata_requests + 1
                /\ IF d.ok
                   THEN /\ latest_date' = d
                        /\ pc' = "path"
                        /\ UNCHANGED result
                   ELSE /\ ReturnErr
                        /\ UNCHANGED latest_date
    /\ UNCHANGED <<args, files, dir_exists, output_file_path, fetch_vars,
                   canvas, wallpaper, exit_code, phases>>

\* the filename that will be written
ComputeOutputPath ==
    /\ pc = "path"
    /\ output_file_path' =
           OutputFileName(store_latest_only, latest_date, output_format)
    /\ pc' = "check"
    /\ UNCHANGED <<args, files, dir_exists, latest_date, fetch_vars, canvas,
                   result, metadata_requests, wallpaper, exit_code, phases>>

\* have we already downloaded this one?
CheckOverwrite ==
    /\ pc = "check"
    /\ IF ShouldSkip(FileExists(files, output_file_path), store_latest_only,
                     force)
       THEN /\ result' = "Ok"
            /\ pc' = "returned"
            /\ phases' = Append(phases, "Skip")
       ELSE /\ pc' = "plan"
            /\ UNCHANGED <<result, phases>>
    /\ UNCHANGED <<args, files, dir_exists, latest_date, output_file_path,
                   fetch_vars, canvas, metadata_requests, wallpaper,
                   exit_code>>

\* for each (x, y) position in a level*level image; the pool takes the
\* positions as its tasks
PlanGrid ==
    /\ pc = "plan"
    /\ chunk_positions' = ChunkPositions(output_level)
    /\ results' = [i \in DOMAIN chunk_positions' |-> "pending"]
    /\ attempts' = [i \in DOMAIN chunk_positions' |-> 0]
    /\ next_task' = [k \in Workers |-> RangeFirst(k, Len(chunk_positions'))]
    /\ pc' = "fetch"
    /\ phases' = Append(phases, "PlanGrid")
    /\ UNCHANGED <<args, files, dir_exists, latest_date, output_file_path,
                   warned, local, finished, chunks, canvas, result,
                   metadata_requests, wallpaper, exit_code>>

\* the closure of filter_map for the next position of worker k: one request,
\* Some((x, y, image_data)) kept, an error logged and dropped
FetchChunk(k) ==
    /\ pc = "fetch"
    /\ next_task[k] <= RangeLast(k, Len(chunk_positions))
    /\ LET i == next_task[k]
       IN  \E o \in FetchOutcomes :
             /\ o # "png_tile" => Cardinality(Bad(results)) < bad_allowed
             /\ attempts' = [attempts EXCEPT ![i] = @ + 1]
             /\ results' = [results EXCEPT ![i] = Kept(o)]
             /\ warned' = IF o \in FetchErrors THEN warned \cup {o}
                          ELSE warned
             /\ local' = IF o \in FetchBytes
                         THEN [local EXCEPT ![k] =
                                 Append(@, [pos |-> chunk_positions[i],
                                            image_data |-> o])]
                         ELSE local
             /\ next_task' = [next_task EXCEPT ![k] = i + 1]
             /\ finished' = IF i = RangeLast(k, Len(chunk_positions))
                            THEN Append(finished, k)
                            ELSE finished
    /\ UNCHANGED <<args, files, dir_exists, pc, latest_date, output_file_path,
                   chunk_positions, chunks, canvas, result,
                   metadata_requests, wallpaper, exit_code, phases>>

\* .collect(): every task of the pool has run
CollectChunks ==
    /\ pc = "fetch"
    /\ \A k \in Workers : next_task[k] > RangeLast(k, Len(chunk_positions))
    /\ chunks' = Collect(local, finished)
    /\ pc' = "compose"
    /\ phases' = Append(phases, "FetchAllTiles")
    /\ UNCHANGED <<args, files, dir_exists, latest_date, output_file_path,
                   chunk_positions, next_task, results, attempts, warned,
                   local, finished, canvas, result, metadata_requests,
                   wallpaper, exit_code>>

\* combining chunks: the canvas is made and every chunk is decoded and copied
Compose ==
    /\ pc = "compose"
    /\ \E cv \in NewCanvas(margins, output_level) :
         IF cv.panic
         THEN /\ pc' = "exited"
              /\ exit_code' = 101
              /\ UNCHANGED <<canvas, result, phases>>
         ELSE LET placed == PlaceChunks([w |-> cv.w, h |-> cv.h,
                                         writes |-> <<>>],
                                        margins, chunks, 1)
              IN  IF placed.ok
                  THEN /\ canvas' = placed.canvas
                       /\ pc' = "save"
                       /\ phases' = Append(phases, "Compose")
                       /\ UNCHANGED <<result, exit_code>>
                  ELSE /\ ReturnErr
                       /\ UNCHANGED <<canvas, exit_code, phases>>
    /\ UNCHANGED <<args, files, dir_exists, latest_date, output_file_path,
                   fetch_vars, metadata_requests, wallpaper>>

\* canvas.save(output_file_path.as_path())?; Ok(output_file_path)
Persist ==
    /\ pc = "save"
    /\ \/ /\ files' = WriteFile(files, output_file_path, canvas)
          /\ result' = "Ok"
          /\ pc' = "returned"
          /\ phases' = Append(phases, "Persist")
       \/ \* the file cannot be created
          /\ ReturnErr
          /\ UNCHANGED <<files, phases>>
       \/ \* the file is created and writing it fails
          /\ files' = WriteFile(files, output_file_path, PartialImage)
          /\ ReturnErr
          /\ UNCHANGED phases
    /\ UNCHANGED <<args, dir_exists, latest_date, output_file_path,
                   fetch_vars, canvas, metadata_requests, wallpaper,
                   exit_code>>

----------------------------------------------------------------------------
(* main, after download_latest_himawari_image *)

\* .and_then(|image_path| if try_set_wallpaper { set_wallpaper(&image_path) }
\* else { Ok(()) }): set_wallpaper is called, and fails where the platform's
\* calls can fail
SetWallpaper ==
    /\ pc = "returned"
    /\ result = "Ok"
    /\ try_set_wallpaper
    /\ wallpaper' \in {"ok", "failed"}
    /\ pc' = "match"
    /\ UNCHANGED <<args, files, dir_exists, latest_date, output_file_path,
                   fetch_vars, canvas, result, metadata_requests, exit_code,
                   phases>>

\* and_then on an Err, or without --set-wallpaper: set_wallpaper is not called
NoWallpaper ==
    /\ pc = "returned"
    /\ result = "Err" \/ ~try_set_wallpaper
    /\ pc' = "match"
    /\ UNCHANGED <<args, files, dir_exists, latest_date, output_file_path,
                   fetch_vars, canvas, result, metadata_requests, wallpaper,
                   exit_code, phases>>

\* a slip: the outcome of set_wallpaper is dropped
MainResultOfDownload(res, wp) == res

\* the Result main matches on: that of the download, and_then that of
\* set_wallpaper
MainResult(res, wp) == IF res = "Ok" /\ wp = "failed" THEN "Err" ELSE res

\* match result { Ok(()) => info!("Done"), Err(..) => exit(1) }
Exit ==
    /\ pc = "match"
    /\ exit_code' = IF MainResult(result, wallpaper) = "Ok" THEN 0 ELSE 1
    /\ pc' = "exited"
    /\ UNCHANGED <<args, files, dir_exists, latest_date, output_file_path,
                   fetch_vars, canvas, result, metadata_requests, wallpaper,
                   phases>>

Next ==
    \/ PrepareOutputDir
    \/ ResolveMetadata
    \/ ComputeOutputPath
    \/ CheckOverwrite
    \/ PlanGrid
    \/ \E k \in Workers : FetchChunk(k)
    \/ CollectChunks
    \/ Compose
    \/ Persist
    \/ SetWallpaper
    \/ NoWallpaper
    \/ Exit

Spec == Init /\ [][Next]_vars

\* the runs that look at the tiles are runs without --set-wallpaper
NextTiles ==
    \/ PrepareOutputDir
    \/ ResolveMetadata
    \/ ComputeOutputPath
    \/ CheckOverwrite
    \/ PlanGrid
    \/ \E k \in Workers : FetchChunk(k)
    \/ CollectChunks
    \/ Compose
    \/ Persist
    \/ NoWallpaper
    \/ Exit

SpecTiles == InitTiles /\ [][NextTiles]_vars

----------------------------------------------------------------------------
(* The --margins argument on its own, and the canvas it gives *)

\* the fields a --margins argument is made of
FieldStrs ==
    {<<"5">>, <<"1", "0">>, <<"1", "5">>, <<"2", "0">>, <<"+", "5">>,
     <<"x">>, <<>>, <<" ", "7">>}

\* the fields of the arguments that give large margins
LargeFieldStrs ==
    {<<"0">>, <<"5">>, <<"4", "2", "9", "4", "9", "6", "7", "2", "9", "5">>,
     <<"4", "2", "9", "4", "9", "6", "7", "2", "9", "6">>}

RECURSIVE Join(_)
\* the fields with a comma between them
Join(fs) ==
    IF Len(fs) = 1 THEN fs[1] ELSE fs[1] \o <<",">> \o Join(Tail(fs))

TextsOf(strs, n) ==
    {Join(fs) : fs \in UNION {[1..k -> strs] : k \in 1..n}}

InitMargins ==
    /\ store_latest_only = FALSE
    /\ force = FALSE
    /\ try_set_wallpaper = FALSE
    /\ output_format = "JPEG"
    /\ output_level = 8
    /\ margins_arg \in {Arg(t) : t \in TextsOf(FieldStrs, MaxFields)}
    /\ margins = NoMargins
    /\ files = {}
    /\ dir_exists = FALSE
    /\ bad_allowed = 0
    /\ pc = "args"
    /\ Untouched

InitCanvas ==
    /\ store_latest_only = FALSE
    /\ force = FALSE
    /\ try_set_wallpaper = FALSE
    /\ output_format = "JPEG"
    /\ output_level \in Levels
    /\ margins_arg \in {Arg(t) : t \in TextsOf(LargeFieldStrs, 4)}
    /\ margins = NoMargins
    /\ files = {}
    /\ dir_exists = FALSE
    /\ bad_allowed = 0
    /\ pc = "args"
    /\ Untouched

\* the validator of --margins, and main's parse of the accepted text
ValidateMargins ==
    /\ pc = "args"
    /\ margins' = try_parse(margins_arg.text)
    /\ pc' = IF margins'.ok THEN "parsed" ELSE "rejected"
    /\ UNCHANGED <<store_latest_only, force, try_set_wallpaper, output_format,
                   output_level, margins_arg, bad_allowed, old_files, files,
                   dir_exists, latest_date, output_file_path, fetch_vars,
                   canvas, result, metadata_requests, wallpaper, exit_code,
                   phases>>

\* lines 309 to 312 for the parsed margins
MakeCanvas ==
    /\ pc = "parsed"
    /\ \E cv \in NewCanvas(margins, output_level) :
         IF cv.panic
         THEN /\ pc' = "exited"
              /\ exit_code' = 101
              /\ UNCHANGED canvas
         ELSE /\ canvas' = [w |-> cv.w, h |-> cv.h, writes |-> <<>>]
              /\ pc' = "canvas"
              /\ UNCHANGED exit_code
    /\ UNCHANGED <<args, files, dir_exists, latest_date, output_file_path,
                   fetch_vars, result, metadata_requests, wallpaper, phases>>

NextMargins == ValidateMargins

SpecMargins == InitMargins /\ [][NextMargins]_vars

NextCanvas ==
    \/ ValidateMargins
    \/ MakeCanvas

SpecCanvas == InitCanvas /\ [][NextCanvas]_vars

----------------------------------------------------------------------------
(* What the claims speak of *)

Range(f) == {f[i] : i \in DOMAIN f}

RECURSIVE SumTo(_, _)
SumTo(f, n) == IF n = 0 THEN 0 ELSE f[n] + SumTo(f, n - 1)

\* the number of tile requests issued so far
TileRequests == SumTo(attempts, Len(attempts))

\* the overwrite check has been passed
PastCheck == output_file_path # <<>> /\ pc # "check"

\* the output file was there before the run
Existed == FileExists(old_files, output_file_path)

\* the condition of the skip, as the claims word it
SkipCondition == Existed /\ ~store_latest_only /\ ~force

\* the full grid of a level
Grid(level) == (0..(level - 1)) \X (0..(level - 1))

RECURSIVE ChunksOf(_, _, _)
\* the tiles whose download gave bytes, from the i-th position on, in the
\* order of the positions
ChunksOf(rs, ps, i) ==
    IF i > Len(ps) THEN <<>>
    ELSE (IF rs[i] \in FetchBytes
          THEN <<[pos |-> ps[i], image_data |-> rs[i]]>> ELSE <<>>)
         \o ChunksOf(rs, ps, i + 1)

\* the canvas the outcomes of the downloads determine
CanvasOf(rs) ==
    PlaceChunks([w |-> WrapU32(CanvasSums(margins, output_level).w),
                 h |-> WrapU32(CanvasSums(margins, output_level).h),
                 writes |-> <<>>],
                margins, ChunksOf(rs, chunk_positions, 1), 1).canvas

\* the corners and the middle of the target region of the tile at pos
RegionPoints(pos) ==
    LET x0 == ToInt(margins.left) + (pos[1] * width)
        y0 == ToInt(margins.top) + (pos[2] * width)
    IN  {<<x0, y0>>, <<x0 + width - 1, y0>>, <<x0, y0 + width - 1>>,
         <<x0 + width - 1, y0 + width - 1>>,
         <<x0 + (width \div 2), y0 + (width \div 2)>>}

Holes == {i \in DOMAIN results : results[i] = "none"}

M(t, r, b, l) ==
    [ok |-> TRUE, top |-> N(t), right |-> N(r), bottom |-> N(b),
     left |-> N(l)]

FieldCount(text) == Cardinality({i \in 1..Len(text) : text[i] = ","}) + 1

\* the field, trimmed and without a sign, has no digit or something else
NonNumeric(field) ==
    LET t == Trim(field)
        d == IF t # <<>> /\ t[1] = "+" THEN Tail(t) ELSE t
    IN  d = <<>> \/ \E i \in 1..Len(d) : ~IsDigit(d[i])

HasNonNumericField(text) ==
    \E i \in 1..Len(Split(text, ",")) : NonNumeric(Split(text, ",")[i])

----------------------------------------------------------------------------
(* C1 *)

\* C1, as claimed: in a run that has downloaded its tiles, no failure of a
\* tile, be it of the transport, of the status or of the decoding, aborts
\* the run: once the downloads are collected the run composes the canvas
\* (only the save can still fail), and a run that returns Ok has saved it.
C1_TileFailureNeverAborts ==
    (pc = "returned" /\ "FetchAllTiles" \in Range(phases))
        => /\ "Compose" \in Range(phases)
           /\ result = "Ok" => FileContent(files, output_file_path) = canvas

----------------------------------------------------------------------------
(* C2 *)

\* C2: when the output file already exists and neither --store-latest-only
\* nor --force is given, the run takes the skip: the download returns Ok,
\* no tile is requested, nothing is composed or saved, the output directory
\* is as it was, and the process ends with success unless the wallpaper
\* step that follows fails.
C2_SkipLeavesFileUntouched ==
    (PastCheck /\ SkipCondition)
        => /\ phases = <<"Skip">>
           /\ result = "Ok"
           /\ TileRequests = 0
           /\ chunk_positions = <<>>
           /\ canvas = NoCanvas
           /\ files = old_files
           /\ FileContent(files, output_file_path) = OldImage
           /\ pc = "exited"
                => exit_code = IF wallpaper = "failed" THEN 1 ELSE 0

\* C2, its case: a run that skipped and ended with success
C2_Witness ==
    /\ pc = "exited"
    /\ SkipCondition
    /\ phases = <<"Skip">>
    /\ exit_code = 0

----------------------------------------------------------------------------
(* C3 *)

\* C3, as claimed: a run that takes the skip has issued no request at all,
\* neither for the metadata nor for a tile.
C3_SkipWithoutAnyRequest ==
    (PastCheck /\ SkipCondition)
        => metadata_requests = 0 /\ TileRequests = 0

\* C3, amended: a run that takes the skip returns Ok without requesting any
\* tile; the one request for the metadata has been issued before, the
\* output path being made of its date.
C3_SkipAfterMetadataOnly ==
    (PastCheck /\ SkipCondition)
        => /\ result = "Ok"
           /\ metadata_requests = 1
           /\ TileRequests = 0
           /\ warned = {}

\* C3, its case: the download has returned by the skip
C3_Witness ==
    /\ pc = "returned"
    /\ SkipCondition
    /\ "Skip" \in Range(phases)
    /\ metadata_requests = 1

----------------------------------------------------------------------------
(* C4 *)

LatestPng == <<"h", "i", "m", "a", "w", "a", "r", "i", "8", "_", "l", "a", "t", "e", "s", "t", ".", "p", "n", "g">>
LatestJpeg == <<"h", "i", "m", "a", "w", "a", "r", "i", "8", "_", "l", "a", "t", "e", "s", "t", ".", "j", "p", "e", "g">>
DatedPng == <<"h", "i", "m", "a", "w", "a", "r", "i", "8", "_", "2", "0", "2", "4", "0", "3", "0", "1", "_", "0", "4", "2", "0", "0", "0", ".", "p", "n", "g">>
DatedJpeg == <<"h", "i", "m", "a", "w", "a", "r", "i", "8", "_", "2", "0", "2", "4", "0", "3", "0", "1", "_", "0", "4", "2", "0", "0", "0", ".", "j", "p", "e", "g">>

\* C4: with --store-latest-only, with --force, or without the output file,
\* the run never takes the skip: it plans the grid, downloads the tiles,
\* composes and saves, and a download that returns Ok has written the
\* canvas to the output path; the path is himawari8_latest.<ext> under
\* --store-latest-only and himawari8_<YYYYMMDD>_<HHMMSS>.<ext> of the
\* metadata date otherwise.
C4_NoSkipWritesTarget ==
    /\ (PastCheck /\ ~SkipCondition)
         => /\ "Skip" \notin Range(phases)
            /\ pc \notin {"plan"} => "PlanGrid" \in Range(phases)
            /\ result = "Ok"
                 => /\ phases = <<"PlanGrid", "FetchAllTiles", "Compose",
                                  "Persist">>
                    /\ TileRequests = output_level * output_level
                    /\ FileExists(files, output_file_path)
                    /\ FileContent(files, output_file_path) = canvas
                    /\ canvas # NoCanvas
    /\ output_file_path # <<>>
         => /\ latest_date = datetime_from_str(GoodDate)
            /\ output_file_path =
                 IF store_latest_only
                 THEN (IF output_format = "PNG" THEN LatestPng
                       ELSE LatestJpeg)
                 ELSE (IF output_format = "PNG" THEN DatedPng
                       ELSE DatedJpeg)

\* C4, its case: --force over an existing dated file, the file overwritten
C4_Witness ==
    /\ pc = "returned"
    /\ result = "Ok"
    /\ Existed /\ force /\ ~store_latest_only
    /\ output_file_path = DatedJpeg
    /\ FileContent(files, output_file_path) = canvas
    /\ FileContent(old_files, output_file_path) = OldImage

----------------------------------------------------------------------------
(* C5 *)

\* C5: the canvas is determined by the outcomes of the downloads alone: in
\* whatever order the downloads ran and the pool workers finished, the
\* canvas composed is the one of the fetched tiles copied in the order of
\* their positions, the same dimensions and the same copies, hence the same
\* pixels.
C5_CanvasIndependentOfOrder ==
    pc = "save" => canvas = CanvasOf(results)

\* C5, its case: the second half of the positions finished first, and an
\* oversized tile of the first half reaches into a tile of the second half,
\* whose pixel is the one that shows
C5_Witness ==
    /\ pc = "save"
    /\ finished = <<2, 1>>
    /\ \E i \in DOMAIN results :
         /\ results[i] = "png_big"
         /\ chunk_positions[i] = <<0, 1>>
         /\ results[i + output_level] = "png_tile"
         /\ PixelAt(canvas, ToInt(margins.left), ToInt(margins.top) + (2 * width))
              = <<<<0, 2>>, 0, 0>>

----------------------------------------------------------------------------
(* C6 *)

\* C6, as claimed: in the composed canvas the target region of every
\* missing tile is at the background value, and every other region is as
\* it would be had that tile been fetched.
C6_HoleIsExactlyItsRegion ==
    pc = "save"
        => \A i \in Holes :
             /\ \A p \in RegionPoints(chunk_positions[i]) :
                  PixelAt(canvas, p[1], p[2]) = Background
             /\ \A j \in DOMAIN results \ {i} :
                  \A p \in RegionPoints(chunk_positions[j]) :
                    PixelAt(canvas, p[1], p[2])
                      = PixelAt(CanvasOf([results EXCEPT ![i] = "png_tile"]),
                                p[1], p[2])

----------------------------------------------------------------------------
(* C7 *)

\* C7, as claimed: Margins::try_parse gives {5,5,5,5} for "5", {5,10,5,10}
\* for "5,10", {5,10,15,5} for "5,10,15" and {5,10,15,20} for "5,10,15,20",
\* in the order top, right, bottom, left; it gives nothing for a text of
\* five or more fields and for a text with a field that is no number.
C7_MarginsParsingAsClaimed ==
    pc # "args"
        => /\ margins_arg.text = <<"5">> => margins = M(5, 5, 5, 5)
           /\ margins_arg.text = <<"5", ",", "1", "0">>
                => margins = M(5, 10, 5, 10)
           /\ margins_arg.text = <<"5", ",", "1", "0", ",", "1", "5">>
                => margins = M(5, 10, 15, 5)
           /\ margins_arg.text = <<"5", ",", "1", "0", ",", "1", "5", ",", "2", "0">>
                => margins = M(5, 10, 15, 20)
           /\ FieldCount(margins_arg.text) >= 5 => ~margins.ok
           /\ HasNonNumericField(margins_arg.text) => ~margins.ok

\* C7, amended: as claimed, but "5,10,15" gives {5,10,15,10}: a left margin
\* that is not given is the right margin, as a right margin that is not
\* given is the top one.
C7_MarginsParsing ==
    pc # "args"
        => /\ margins_arg.text = <<"5">> => margins = M(5, 5, 5, 5)
           /\ margins_arg.text = <<"5", ",", "1", "0">>
                => margins = M(5, 10, 5, 10)
           /\ margins_arg.text = <<"5", ",", "1", "0", ",", "1", "5">>
                => margins = M(5, 10, 15, 10)
           /\ margins_arg.text = <<"5", ",", "1", "0", ",", "1", "5", ",", "2", "0">>
                => margins = M(5, 10, 15, 20)
           /\ FieldCount(margins_arg.text) >= 5 => ~margins.ok
           /\ HasNonNumericField(margins_arg.text) => ~margins.ok

\* C7, its case: "5,10,15" has been parsed
C7_Witness ==
    /\ pc = "parsed"
    /\ margins_arg.text = <<"5", ",", "1", "0", ",", "1", "5">>
    /\ margins = M(5, 10, 15, 10)

----------------------------------------------------------------------------
(* C8 *)

\* C8: the positions of every valid level are the level * level distinct
\* coordinates of the full grid; a run that has collected its downloads has
\* issued exactly one request for each position of the grid of its level,
\* whatever the other downloads gave; and while the downloads run, every
\* position not yet downloaded is still ahead of a pool worker.
C8_EveryTileAttemptedOnce ==
    /\ pc = "plan"
         => \A l \in Levels :
              /\ Len(ChunkPositions(l)) = l * l
              /\ Range(ChunkPositions(l)) = Grid(l)
              /\ Cardinality(Range(ChunkPositions(l))) = l * l
    /\ pc = "fetch"
         => \A i \in DOMAIN results :
              /\ attempts[i] = IF results[i] = "pending" THEN 0 ELSE 1
              /\ results[i] = "pending"
                   => \E k \in Workers :
                        /\ next_task[k] <= i
                        /\ i <= RangeLast(k, Len(chunk_positions))
    /\ "FetchAllTiles" \in Range(phases)
         => /\ Range(chunk_positions) = Grid(output_level)
            /\ Len(chunk_positions) = output_level * output_level
            /\ \A i \in DOMAIN chunk_positions :
                 attempts[i] = 1 /\ results[i] # "pending"

\* C8, its case: downloads failed and the later ones were still made
C8_Witness ==
    /\ pc = "compose"
    /\ Cardinality(Holes) = MaxBad
    /\ \E i \in Holes : \E j \in DOMAIN results :
         j > i /\ results[j] = "png_tile" /\ attempts[j] = 1

----------------------------------------------------------------------------
(* C9 *)

\* C9, as claimed: set_wallpaper is called only after the save of the same
\* run.
C9_WallpaperOnlyAfterPersist ==
    wallpaper # "not_called" => "Persist" \in Range(phases)

\* C9, amended: set_wallpaper is called only after the download has
\* returned Ok, that is after the save of the same run or after the skip,
\* which saves nothing; when it fails the process exits with 1, and the
\* image at the output path is there and is the one the download left: the
\* canvas saved, or after the skip the image that was there before the run.
C9_WallpaperAfterDownload ==
    wallpaper # "not_called"
        => /\ result = "Ok"
           /\ try_set_wallpaper
           /\ \/ "Persist" \in Range(phases)
              \/ "Skip" \in Range(phases)
           /\ FileExists(files, output_file_path)
           /\ "Persist" \in Range(phases)
                => FileContent(files, output_file_path) = canvas
           /\ "Skip" \in Range(phases) => files = old_files
           /\ (wallpaper = "failed" /\ pc = "exited") => exit_code = 1

\* C9, its case: the wallpaper failed after a save, and the process has
\* exited
C9_Witness ==
    /\ pc = "exited"
    /\ wallpaper = "failed"
    /\ "Persist" \in Range(phases)
    /\ exit_code = 1

----------------------------------------------------------------------------
(* C10 *)

\* C10, as claimed: the dimensions of the canvas are margins.left +
\* margins.right + level * 550 and margins.top + margins.bottom + level *
\* 550, as natural numbers, for any margins the parser accepts and any
\* valid level.
C10_CanvasDimensions ==
    pc = "canvas"
        => /\ canvas.w = CanvasSums(margins, output_level).w
           /\ canvas.h = CanvasSums(margins, output_level).h

----------------------------------------------------------------------------
(* C11 *)

\* the rectangle of a copy lies within the canvas
Within(cv, wr) ==
    /\ ToInt(wr.x) + wr.w <= ToInt(cv.w)
    /\ ToInt(wr.y) + wr.h <= ToInt(cv.h)

\* the rectangles of two copies have a pixel in common
Overlap(a, b) ==
    /\ ToInt(a.x) < ToInt(b.x) + b.w /\ ToInt(b.x) < ToInt(a.x) + a.w
    /\ ToInt(a.y) < ToInt(b.y) + b.h /\ ToInt(b.y) < ToInt(a.y) + a.h

\* C11, as claimed: in the composed canvas every rectangle written, the
\* offset of its tile with the actual width and height of the decoded
\* block, lies within the canvas, and the rectangles written for two
\* different positions have no pixel in common.
C11_PlacementsWithinAndDisjoint ==
    pc = "save"
        => /\ \A i \in 1..Len(canvas.writes) : Within(canvas, canvas.writes[i])
           /\ \A i, j \in 1..Len(canvas.writes) :
                canvas.writes[i].tile # canvas.writes[j].tile
                    => ~Overlap(canvas.writes[i], canvas.writes[j])

====
